---- MODULE Spec2Model ----
(***************************************************************************)
(* A model of server.js: the GET /recommend handler (parameter resolution, *)
(* query building, the response cache, the sequential provider calls, the  *)
(* fallback and the scored path) as a state machine over concurrently      *)
(* served requests.  Text is a TLA+ string; chars gives the characters of  *)
(* every string the model lets the program look into.                      *)
(***************************************************************************)
EXTENDS Integers, Sequences, FiniteSets, TLC

\* ---------------------------------------------------------------- bounds
\* Requests the model lets arrive in one run.
MaxReqs == 2
\* Marketplace listings a provider has for one request, in the runs with
\* several requests.
MaxGathered == 1

\* ------------------------------------------------------------------ text
UNDEFINED == "<undefined>"

chars ==
    "salad" :> <<"s", "a", "l", "a", "d">> @@
    "grilled" :> <<"g", "r", "i", "l", "l", "e", "d">> @@
    "bowl" :> <<"b", "o", "w", "l">> @@
    "quinoa" :> <<"q", "u", "i", "n", "o", "a">> @@
    "sprouts" :> <<"s", "p", "r", "o", "u", "t", "s">> @@
    "tofu" :> <<"t", "o", "f", "u">> @@
    "paneer" :> <<"p", "a", "n", "e", "e", "r">> @@
    "brown rice" :> <<"b", "r", "o", "w", "n", " ", "r", "i", "c", "e">> @@
    "roasted" :> <<"r", "o", "a", "s", "t", "e", "d">> @@
    "steamed" :> <<"s", "t", "e", "a", "m", "e", "d">> @@
    "greens" :> <<"g", "r", "e", "e", "n", "s">> @@
    "lean" :> <<"l", "e", "a", "n">> @@
    "protein" :> <<"p", "r", "o", "t", "e", "i", "n">> @@
    "soup" :> <<"s", "o", "u", "p">> @@
    "dal" :> <<"d", "a", "l">> @@
    "millet" :> <<"m", "i", "l", "l", "e", "t">> @@
    "fried" :> <<"f", "r", "i", "e", "d">> @@
    "butter" :> <<"b", "u", "t", "t", "e", "r">> @@
    "cream" :> <<"c", "r", "e", "a", "m">> @@
    "creamy" :> <<"c", "r", "e", "a", "m", "y">> @@
    "cheese" :> <<"c", "h", "e", "e", "s", "e">> @@
    "biryani" :> <<"b", "i", "r", "y", "a", "n", "i">> @@
    "burger" :> <<"b", "u", "r", "g", "e", "r">> @@
    "pizza" :> <<"p", "i", "z", "z", "a">> @@
    "fries" :> <<"f", "r", "i", "e", "s">> @@
    "sweet" :> <<"s", "w", "e", "e", "t">> @@
    "tikka" :> <<"t", "i", "k", "k", "a">> @@
    "peri" :> <<"p", "e", "r", "i">> @@
    "tangy" :> <<"t", "a", "n", "g", "y">> @@
    "masala" :> <<"m", "a", "s", "a", "l", "a">> @@
    "grill" :> <<"g", "r", "i", "l", "l">> @@
    "swiggy.com" :> <<"s", "w", "i", "g", "g", "y", ".", "c", "o", "m">> @@
    "zomato.com" :> <<"z", "o", "m", "a", "t", "o", ".", "c", "o", "m">> @@
    "Grilled Paneer Tikka Salad" :> <<"G", "r", "i", "l", "l", "e", "d", " ", "P", "a", "n", "e", "e", "r", " ", "T", "i", "k", "k", "a", " ", "S", "a", "l", "a", "d">> @@
    "Quinoa Bowl" :> <<"Q", "u", "i", "n", "o", "a", " ", "B", "o", "w", "l">> @@
    "Tofu Bowl" :> <<"T", "o", "f", "u", " ", "B", "o", "w", "l">> @@
    "Cheese Burger" :> <<"C", "h", "e", "e", "s", "e", " ", "B", "u", "r", "g", "e", "r">> @@
    "Masala Dosa" :> <<"M", "a", "s", "a", "l", "a", " ", "D", "o", "s", "a">> @@
    "Dal Fry" :> <<"D", "a", "l", " ", "F", "r", "y">> @@
    "Butter Chicken" :> <<"B", "u", "t", "t", "e", "r", " ", "C", "h", "i", "c", "k", "e", "n">> @@
    "https://www.swiggy.com/1" :> <<"h", "t", "t", "p", "s", ":", "/", "/", "w", "w", "w", ".", "s", "w", "i", "g", "g", "y", ".", "c", "o", "m", "/", "1">> @@
    "https://www.zomato.com/2" :> <<"h", "t", "t", "p", "s", ":", "/", "/", "w", "w", "w", ".", "z", "o", "m", "a", "t", "o", ".", "c", "o", "m", "/", "2">> @@
    "https://www.swiggy.com/3" :> <<"h", "t", "t", "p", "s", ":", "/", "/", "w", "w", "w", ".", "s", "w", "i", "g", "g", "y", ".", "c", "o", "m", "/", "3">> @@
    "https://www.zomato.com/4" :> <<"h", "t", "t", "p", "s", ":", "/", "/", "w", "w", "w", ".", "z", "o", "m", "a", "t", "o", ".", "c", "o", "m", "/", "4">> @@
    "https://www.swiggy.com/5" :> <<"h", "t", "t", "p", "s", ":", "/", "/", "w", "w", "w", ".", "s", "w", "i", "g", "g", "y", ".", "c", "o", "m", "/", "5">> @@
    "https://WWW.ZOMATO.COM/6" :> <<"h", "t", "t", "p", "s", ":", "/", "/", "W", "W", "W", ".", "Z", "O", "M", "A", "T", "O", ".", "C", "O", "M", "/", "6">> @@
    "https://www.swiggy.com/7" :> <<"h", "t", "t", "p", "s", ":", "/", "/", "w", "w", "w", ".", "s", "w", "i", "g", "g", "y", ".", "c", "o", "m", "/", "7">> @@
    "https://example.com/9" :> <<"h", "t", "t", "p", "s", ":", "/", "/", "e", "x", "a", "m", "p", "l", "e", ".", "c", "o", "m", "/", "9">> @@
    "" :> <<>> @@
    "400" :> <<"4", "0", "0">> @@
    "450" :> <<"4", "5", "0">> @@
    "450.4" :> <<"4", "5", "0", ".", "4">> @@
    "450.5" :> <<"4", "5", "0", ".", "5">> @@
    "451" :> <<"4", "5", "1">> @@
    "299.4" :> <<"2", "9", "9", ".", "4">> @@
    "-20" :> <<"-", "2", "0">> @@
    "800.5" :> <<"8", "0", "0", ".", "5">> @@
    "1000000" :> <<"1", "0", "0", "0", "0", "0", "0">> @@
    "abc" :> <<"a", "b", "c">> @@
    "12abc" :> <<"1", "2", "a", "b", "c">> @@
    "500.4" :> <<"5", "0", "0", ".", "4">>

lowerOf ==
    "A" :> "a" @@ "B" :> "b" @@ "C" :> "c" @@ "D" :> "d" @@ "F" :> "f" @@
    "G" :> "g" @@ "M" :> "m" @@ "O" :> "o" @@ "P" :> "p" @@ "Q" :> "q" @@
    "S" :> "s" @@ "T" :> "t" @@ "W" :> "w" @@ "Z" :> "z"

\* String.prototype.toLowerCase, on a character sequence.
toLowerCase(cs) ==
    [i \in 1..Len(cs) |-> IF cs[i] \in DOMAIN lowerOf THEN lowerOf[cs[i]] ELSE cs[i]]

\* String.prototype.includes, on character sequences.
includes(t, k) ==
    \E i \in 0..(Len(t) - Len(k)) : SubSeq(t, i + 1, i + Len(k)) = k

\* ----------------------------------------------------------- JS numbers
\* A JS number is NaN or a value counted in tenths.
NaN == [nan |-> TRUE, d |-> 0]
Num(d) == [nan |-> FALSE, d |-> d]

digitOf ==
    "0" :> 0 @@ "1" :> 1 @@ "2" :> 2 @@ "3" :> 3 @@ "4" :> 4 @@
    "5" :> 5 @@ "6" :> 6 @@ "7" :> 7 @@ "8" :> 8 @@ "9" :> 9

RECURSIVE digitsValue(_)
digitsValue(ds) ==
    IF ds = <<>> THEN 0
    ELSE 10 * digitsValue(SubSeq(ds, 1, Len(ds) - 1)) + digitOf[ds[Len(ds)]]

\* Number(string) for decimal literals with a sign and at most one
\* fractional digit; any other non-empty text is NaN, the empty text 0.
StringToNumber(cs) ==
    LET signed == cs # <<>> /\ cs[1] \in {"-", "+"}
        body   == IF signed THEN Tail(cs) ELSE cs
        dots   == {i \in 1..Len(body) : body[i] = "."}
        dot    == IF dots = {} THEN Len(body) + 1 ELSE CHOOSE i \in dots : TRUE
        whole  == SubSeq(body, 1, dot - 1)
        frac   == SubSeq(body, dot + 1, Len(body))
        ok     == /\ Cardinality(dots) <= 1
                  /\ \A i \in 1..Len(whole) : whole[i] \in DOMAIN digitOf
                  /\ \A i \in 1..Len(frac) : frac[i] \in DOMAIN digitOf
                  /\ Len(whole) + Len(frac) > 0
                  /\ Len(frac) <= 1
        mag    == 10 * digitsValue(whole) + digitsValue(frac)
    IN  IF cs = <<>> THEN Num(0)
        ELSE IF ~ok THEN NaN
        ELSE IF signed /\ cs[1] = "-" THEN Num(0 - mag) ELSE Num(mag)

\* Number(req.query.calories || 500): undefined and "" are falsy.
Number(raw) ==
    IF raw = UNDEFINED \/ raw = "" THEN Num(5000) ELSE StringToNumber(chars[raw])

\* Math.round: to the nearest integer, halves towards +Infinity.
MathRound(x) == IF x.nan THEN NaN ELSE Num(10 * ((x.d + 5) \div 10))

\* Math.min and Math.max answer NaN when an argument is NaN.
MathMin(a, b) == IF a.nan \/ b.nan THEN NaN ELSE IF a.d <= b.d THEN a ELSE b
MathMax(a, b) == IF a.nan \/ b.nan THEN NaN ELSE IF a.d >= b.d THEN a ELSE b

MinMeal == Num(3000)
MaxMeal == Num(8000)

\* line 98: Math.max(300, Math.min(800, Math.round(calories)))
clamp(calories) == MathMax(MinMeal, MathMin(MaxMeal, MathRound(calories)))

\* String(req.query.x || dflt)
StringOr(raw, dflt) == IF raw = UNDEFINED \/ raw = "" THEN dflt ELSE raw

\* ------------------------------------------------------------ heuristics
POSITIVE_TOKENS ==
    << "salad", "grilled", "bowl", "quinoa", "sprouts", "tofu", "paneer",
       "brown rice", "roasted", "steamed", "greens", "lean", "protein",
       "soup", "dal", "millet" >>
NEGATIVE_TOKENS ==
    << "fried", "butter", "cream", "creamy", "cheese", "biryani", "burger",
       "pizza", "fries", "sweet" >>
FLAVOR_TOKENS == << "tikka", "peri", "tangy", "masala", "grill" >>

Hits(t, tokens) == SelectSeq(tokens, LAMBDA k : includes(t, chars[k]))

\* scoreTitle matching the title as written, not lower-cased.
scoreTitleCaseSensitive(title, taste) ==
    LET t    == chars[title]
        pos  == Hits(t, POSITIVE_TOKENS)
        neg  == Hits(t, NEGATIVE_TOKENS)
        nudge == IF taste \in {"tasty", "balanced"}
                 THEN Len(Hits(t, FLAVOR_TOKENS)) ELSE 0
        flat == IF taste = "healthy" THEN 1 ELSE 0
    IN  [ score   |-> 2 * Len(pos) - 2 * Len(neg) + nudge + flat,
          reasons |-> [i \in 1..Len(pos) |-> <<"has", pos[i]>>]
                      \o [i \in 1..Len(neg) |-> <<"avoids", neg[i]>>] ]

\* lines 37-51
scoreTitle(title, taste) ==
    LET t    == toLowerCase(chars[title])
        pos  == Hits(t, POSITIVE_TOKENS)
        neg  == Hits(t, NEGATIVE_TOKENS)
        nudge == IF taste \in {"tasty", "balanced"}
                 THEN Len(Hits(t, FLAVOR_TOKENS)) ELSE 0
        flat == IF taste = "healthy" THEN 1 ELSE 0
    IN  [ score   |-> 2 * Len(pos) - 2 * Len(neg) + nudge + flat,
          reasons |-> [i \in 1..Len(pos) |-> <<"has", pos[i]>>]
                      \o [i \in 1..Len(neg) |-> <<"avoids", neg[i]>>] ]

\* ----------------------------------------------------------- environment
\* What a provider answer can list: a title (or none), a link (or none).
Item(title, link) == [ title |-> title, link |-> link, snippet |-> UNDEFINED ]

Salad   == Item("Grilled Paneer Tikka Salad", "https://www.swiggy.com/1")
Quinoa  == Item("Quinoa Bowl", "https://www.zomato.com/2")
Tofu    == Item("Tofu Bowl", "https://www.swiggy.com/3")
Burger  == Item("Cheese Burger", "https://www.swiggy.com/1")
Dosa    == Item("Masala Dosa", "https://www.zomato.com/4")
DalFry  == Item("Dal Fry", "https://www.swiggy.com/5")
Chicken == Item("Butter Chicken", "https://WWW.ZOMATO.COM/6")
Offsite == Item("Tofu Bowl", "https://example.com/9")
Linkless == Item("Quinoa Bowl", UNDEFINED)
Untitled == Item(UNDEFINED, "https://www.swiggy.com/7")

Titles == { "Grilled Paneer Tikka Salad", "Quinoa Bowl", "Tofu Bowl", "Cheese Burger",
            "Masala Dosa", "Dal Fry", "Butter Chicken" }
Links == { "https://www.swiggy.com/1", "https://www.zomato.com/2", "https://www.swiggy.com/3",
           "https://www.zomato.com/4", "https://www.swiggy.com/5", "https://WWW.ZOMATO.COM/6",
           "https://www.swiggy.com/7", "https://example.com/9", UNDEFINED }
Tastes == { "balanced", "tasty", "healthy", "spicy" }

\* The item lists of a well-formed provider answer: few in the runs with
\* several requests, many in the runs of one request.
FewPages == { << >>, << Offsite, Quinoa >> }
ManyPages == { << Salad, Quinoa >>, << Burger, Tofu >>, << Dosa, DalFry >>,
               << Chicken, Offsite >>, << Linkless, Untitled >> }

\* The query strings of a request: absent (or empty) parameters and given ones.
Query(c, a, t) == [ calories |-> c, activity |-> a, taste |-> t ]
FewQueries ==
    { Query(UNDEFINED, UNDEFINED, UNDEFINED), Query("500.4", UNDEFINED, UNDEFINED),
      Query("400", UNDEFINED, "tasty") }
OneQueries == { Query(UNDEFINED, "high", t) : t \in { "tasty", "healthy" } }
WideQueries ==
    { Query(c, a, t) :
        c \in { UNDEFINED, "", "400", "450", "450.4", "450.5", "451", "299.4", "-20",
                "800.5", "1000000", "abc", "12abc", "500.4" },
        a \in { UNDEFINED, "light" },
        t \in { UNDEFINED, "", "tasty", "healthy", "spicy" } }

\* --------------------------------------------------------- query builder
LIGHTER == << "grilled salad", "protein bowl", "quinoa bowl", "tofu salad", "paneer salad" >>
HIGHER_PROTEIN ==
    << "high protein bowl", "grilled chicken bowl", "paneer bowl", "tofu bowl", "millet bowl" >>
SITES == << "site:swiggy.com", "site:zomato.com" >>

\* targetCalories <= 450: a comparison with NaN is false.
AtMost450(x) == ~x.nan /\ x.d <= 4500

\* A query `${b} ${tasteBoost} ${s} ${area}` is kept as its four parts, in order.
buildQueries(targetCalories, activity, taste) ==
    LET base == IF AtMost450(targetCalories) THEN LIGHTER ELSE HIGHER_PROTEIN
        tasteBoost == IF taste = "tasty" THEN "tasty"
                      ELSE IF taste = "healthy" THEN "healthy" ELSE "balanced"
    IN  [ i \in 1..(Len(base) * Len(SITES)) |->
            << base[((i - 1) \div Len(SITES)) + 1], tasteBoost,
               SITES[((i - 1) % Len(SITES)) + 1], "Bangalore" >> ]

\* Array.prototype.slice(from, to), 0-based and end-exclusive.
slice(s, from, to) ==
    SubSeq(s, from + 1, IF to < Len(s) THEN to ELSE Len(s))

\* String(number) inside a template literal, and JSON.stringify(number).
NumberToString(x) == IF x.nan THEN "NaN" ELSE ToString(x.d \div 10)
JsonNumber(x) == IF x.nan THEN "null" ELSE ToString(x.d \div 10)

\* line 100: JSON.stringify({ targetMeal, activity, taste })
cacheKey(targetMeal, activity, taste) == << JsonNumber(targetMeal), activity, taste >>

\* lines 94-100: the resolved request target, its queries and its cache key.
resolve(query) ==
    LET calories   == Number(query.calories)
        activity   == StringOr(query.activity, "moderate")
        taste      == StringOr(query.taste, "balanced")
        targetMeal == clamp(calories)
    IN  [ targetMeal |-> targetMeal,
          activity   |-> activity,
          taste      |-> taste,
          queries    |-> buildQueries(targetMeal, activity, taste),
          cacheKey   |-> cacheKey(targetMeal, activity, taste) ]

\* resolve over the query strings of the model.
Resolved == [ query \in FewQueries \cup OneQueries \cup WideQueries |-> resolve(query) ]

\* -------------------------------------------------------- search gateway
\* line 82: /swiggy\.com|zomato\.com/i.test(it.link || '')
testMarketplace(link) ==
    LET l == toLowerCase(chars[IF link = UNDEFINED THEN "" ELSE link])
    IN  includes(l, chars["swiggy.com"]) \/ includes(l, chars["zomato.com"])

\* testMarketplace over the links a provider answer can carry.
isMarketplace == [ link \in Links |-> testMarketplace(link) ]

\* lines 80-87: the items of a well-formed response, filtered and mapped.
cseItems(items) ==
    LET kept == SelectSeq(items, LAMBDA it : isMarketplace[it.link])
    IN  [ i \in 1..Len(kept) |->
            [ title   |-> kept[i].title,
              link    |-> kept[i].link,
              snippet |-> IF kept[i].snippet = UNDEFINED THEN "" ELSE kept[i].snippet ] ]

\* ------------------------------------------------------ result aggregator
RECURSIVE Join(_, _)
Join(texts, sep) ==
    IF texts = <<>> THEN <<>>
    ELSE IF Len(texts) = 1 THEN texts[1]
    ELSE texts[1] \o <<sep>> \o Join(Tail(texts), sep)

\* line 120: q.replace(/site:\S+/g,'').replace(/bangalore/i,'').trim()
label(q) == SelectSeq(q, LAMBDA part : part \notin {"site:swiggy.com", "site:zomato.com", "Bangalore"})

\* The fallback payload with a pick for every attempted query.
fallbackPayloadUncut(targetMeal, activity, taste, queries) ==
    LET attempted == slice(queries, 0, 6)
    IN  [ picks |-> [ i \in 1..Len(attempted) |->
                        [ name   |-> label(attempted[i]),
                          link   |-> <<"https://www.google.com/search?q=">> \o attempted[i],
                          reason |-> << "Matches your target ~", NumberToString(targetMeal),
                                        " kcal and ", taste, " preference." >>,
                          source |-> << "Heuristic v1 (fallback search links)" >> ] ],
          targetCalories |-> targetMeal,
          activity       |-> activity,
          taste          |-> taste,
          usedCSE        |-> FALSE ]

\* lines 119-139: the fallback payload.
fallbackPayload(targetMeal, activity, taste, queries) ==
    LET attempted == slice(queries, 0, 6)
        alt == [ i \in 1..Len(attempted) |->
                   [ title   |-> label(attempted[i]),
                     link    |-> <<"https://www.google.com/search?q=">> \o attempted[i],
                     snippet |-> "Open to see matching options on Swiggy/Zomato (Bengaluru)." ] ]
        first == slice(alt, 0, 5)
    IN  [ picks |-> [ i \in 1..Len(first) |->
                        [ name   |-> first[i].title,
                          link   |-> first[i].link,
                          reason |-> << "Matches your target ~", NumberToString(targetMeal),
                                        " kcal and ", taste, " preference." >>,
                          source |-> << "Heuristic v1 (fallback search links)" >> ] ],
          targetCalories |-> targetMeal,
          activity       |-> activity,
          taste          |-> taste,
          usedCSE        |-> FALSE ]

\* lines 145-150: keep the first result of every link.
RECURSIVE dedupe(_, _)
dedupe(results, seen) ==
    IF results = <<>> THEN <<>>
    ELSE IF Head(results).link \in seen THEN dedupe(Tail(results), seen)
    ELSE <<Head(results)>> \o dedupe(Tail(results), seen \cup {Head(results).link})

\* Array.prototype.sort((a,b) => b.score - a.score): stable since ES2019, so
\* an element goes behind every element that does not sort after it.
\* insert as an unstable sort may place x: before the elements of its score.
insertBeforeEqual(sorted, x) ==
    LET ahead == {i \in 1..Len(sorted) : sorted[i].score > x.score}
        n == Cardinality(ahead)
    IN  SubSeq(sorted, 1, n) \o <<x>> \o SubSeq(sorted, n + 1, Len(sorted))

insert(sorted, x) ==
    LET ahead == {i \in 1..Len(sorted) : sorted[i].score >= x.score}
        n == Cardinality(ahead)
    IN  SubSeq(sorted, 1, n) \o <<x>> \o SubSeq(sorted, n + 1, Len(sorted))

RECURSIVE sortByScore(_)
sortByScore(s) ==
    IF s = <<>> THEN <<>>
    ELSE insert(sortByScore(SubSeq(s, 1, Len(s) - 1)), s[Len(s)])

\* scoreTitle over the titles a provider answer can carry.
scoreOf == [ title \in Titles, taste \in Tastes |-> scoreTitle(title, taste) ]

\* lines 153-162
scoreAndSort(results, taste) ==
    sortByScore([ i \in 1..Len(results) |->
        [ name    |-> results[i].title,
          link    |-> results[i].link,
          snippet |-> results[i].snippet,
          score   |-> scoreOf[results[i].title, taste].score,
          reasons |-> scoreOf[results[i].title, taste].reasons ] ])

\* lines 164-177: the payload of the scored path.
scoredPayload(targetMeal, activity, taste, scored) ==
    LET first == slice(scored, 0, 5)
    IN  [ picks |-> [ i \in 1..Len(first) |->
                        [ name   |-> << first[i].name >>,
                          link   |-> << first[i].link >>,
                          reason |-> << "Chosen for: " >>
                                     \o (IF first[i].reasons = <<>> THEN << "overall balance" >>
                                         ELSE Join(slice(first[i].reasons, 0, 3), ", "))
                                     \o << "; target ~", NumberToString(targetMeal), " kcal." >>,
                          source |-> << "Heuristic v1 + ", activity, " activity" >> ] ],
          targetCalories |-> targetMeal,
          activity       |-> activity,
          taste          |-> taste,
          usedCSE        |-> TRUE ]

\* ------------------------------------------------------------------ state
VARIABLES
    configured,   \* CSE_KEY && CSE_ID, fixed at process start
    now,          \* Date.now()
    CACHE,        \* the Map: cache key -> [v, t]
    req           \* per request: the handler's locals, its position, its response

vars == << configured, now, CACHE, req >>

Reqs == 1..MaxReqs

CACHE_TTL_MS == 10 * 60 * 1000

\* The instants the clock is read at: 0, and those around the expiry of an
\* entry stored at 0.
Instants == { 0, CACHE_TTL_MS - 1, CACHE_TTL_MS, CACHE_TTL_MS + 1 }

NoBody == [ none |-> TRUE ]
NoEntry == [ present |-> FALSE, age |-> 0, v |-> NoBody ]

Idle ==
    [ pc |-> "idle", query |-> [calories |-> UNDEFINED, activity |-> UNDEFINED, taste |-> UNDEFINED],
      targetMeal |-> NaN, activity |-> "", taste |-> "", at |-> 0, after |-> {},
      saw |-> NoEntry, hit |-> FALSE, issued |-> <<>>, answered |-> 0, failed |-> FALSE,
      results |-> <<>>, scored |-> <<>>, status |-> 0, body |-> NoBody, doneAt |-> 0 ]

Init ==
    /\ configured \in BOOLEAN
    /\ now = 0
    /\ CACHE = << >>
    /\ req = [ r \in Reqs |-> Idle ]

\* ------------------------------------------------------------------ cache
\* cacheGet expiring an entry once it is CACHE_TTL_MS old.
cacheGetStrict(k) ==
    IF k \notin DOMAIN CACHE THEN [ found |-> FALSE, v |-> NoBody, map |-> CACHE ]
    ELSE IF now - CACHE[k].t >= CACHE_TTL_MS
         THEN [ found |-> FALSE, v |-> NoBody,
                map |-> [ x \in DOMAIN CACHE \ {k} |-> CACHE[x] ] ]
    ELSE [ found |-> TRUE, v |-> CACHE[k].v, map |-> CACHE ]

\* lines 20-25; the answer and the Map it leaves behind.
cacheGet(k) ==
    IF k \notin DOMAIN CACHE THEN [ found |-> FALSE, v |-> NoBody, map |-> CACHE ]
    ELSE IF now - CACHE[k].t > CACHE_TTL_MS
         THEN [ found |-> FALSE, v |-> NoBody,
                map |-> [ x \in DOMAIN CACHE \ {k} |-> CACHE[x] ] ]
    ELSE [ found |-> TRUE, v |-> CACHE[k].v, map |-> CACHE ]

\* cacheSet keeping the stamp of the entry it overwrites.
cacheSetOldStamp(map, k, v) ==
    [ x \in DOMAIN map \cup {k} |->
        IF x = k THEN [ v |-> v, t |-> IF k \in DOMAIN map THEN map[k].t ELSE 0 ]
        ELSE map[x] ]

\* line 26
cacheSet(map, k, v) ==
    [ x \in DOMAIN map \cup {k} |-> IF x = k THEN [ v |-> v, t |-> now ] ELSE map[x] ]

\* What the lookup of k meets in the Map (kept with the request for the record).
Entry(k) ==
    IF k \in DOMAIN CACHE
    THEN [ present |-> TRUE, age |-> now - CACHE[k].t, v |-> CACHE[k].v ]
    ELSE NoEntry

\* ---------------------------------------------------------------- handler
\* lines 94-103: the request as it stands after the cache lookup.
Arrived(r, query) ==
    LET t == Resolved[query]
    IN  [ req[r] EXCEPT
            !.query = query, !.targetMeal = t.targetMeal, !.activity = t.activity,
            !.taste = t.taste, !.at = now, !.saw = Entry(t.cacheKey),
            !.after = { p \in Reqs : req[p].pc = "done" } ]

\* Outcome choosing the path by the configuration alone.
OutcomeByConfig(me, results) ==
    LET queries == Resolved[me.query].queries
        unique  == dedupe(results, {})
        scored  == scoreAndSort(unique, me.taste)
    IN  IF ~configured
        THEN [ status |-> 200, store |-> TRUE, scored |-> << >>,
               body |-> fallbackPayload(me.targetMeal, me.activity, me.taste, queries) ]
        ELSE IF \E i \in 1..Len(unique) : unique[i].title = UNDEFINED
        THEN [ status |-> 500, store |-> FALSE, scored |-> << >>,
               body |-> [ error |-> "Cannot read properties of undefined" ] ]
        ELSE [ status |-> 200, store |-> TRUE, scored |-> scored,
               body |-> scoredPayload(me.targetMeal, me.activity, me.taste, scored) ]

\* lines 117-181, run once the query loop is over: the response, whether the
\* payload is stored, and the scored list (scoreTitle throws on a title that
\* is no string, and the handler then answers 500).
Outcome(me, results) ==
    LET queries == Resolved[me.query].queries
        unique  == dedupe(results, {})
        scored  == scoreAndSort(unique, me.taste)
    IN  IF ~configured \/ Len(results) = 0
        THEN [ status |-> 200, store |-> TRUE, scored |-> << >>,
               body |-> fallbackPayload(me.targetMeal, me.activity, me.taste, queries) ]
        ELSE IF \E i \in 1..Len(unique) : unique[i].title = UNDEFINED
        THEN [ status |-> 500, store |-> FALSE, scored |-> << >>,
               body |-> [ error |-> "Cannot read properties of undefined" ] ]
        ELSE [ status |-> 200, store |-> TRUE, scored |-> scored,
               body |-> scoredPayload(me.targetMeal, me.activity, me.taste, scored) ]

\* The handler from the end of the query loop to its response.
Finish(r, me, results, map) ==
    LET out == Outcome(me, results)
        key == Resolved[me.query].cacheKey
    IN  /\ req' = [ req EXCEPT ![r] =
                      [ me EXCEPT !.pc = "done", !.results = results,
                                  !.scored = out.scored, !.status = out.status,
                                  !.body = out.body, !.doneAt = now ] ]
        /\ CACHE' = IF out.store THEN cacheSet(map, key, out.body) ELSE map

\* A request arrives and its payload is in the cache (lines 94-103).
ServeCached(r, query) ==
    LET me  == Arrived(r, query)
        got == cacheGet(Resolved[query].cacheKey)
    IN  /\ req[r].pc = "idle"
        /\ got.found
        /\ req' = [ req EXCEPT ![r] =
                      [ me EXCEPT !.pc = "done", !.hit = TRUE, !.status = 200,
                                  !.body = got.v, !.doneAt = now ] ]
        /\ CACHE' = got.map
        /\ UNCHANGED << configured, now >>

\* A request arrives, misses the cache, and no provider is configured: the
\* handler runs to its response without waiting (lines 94-141).
ServeFallback(r, query) ==
    LET me  == Arrived(r, query)
        got == cacheGet(Resolved[query].cacheKey)
    IN  /\ req[r].pc = "idle"
        /\ ~got.found
        /\ ~configured
        /\ Finish(r, me, <<>>, got.map)
        /\ UNCHANGED << configured, now >>

\* A request arrives, misses the cache, and the first provider call is issued
\* (lines 94-111, cseSearch up to its await of fetch).
StartSearch(r, query) ==
    LET me  == Arrived(r, query)
        got == cacheGet(Resolved[query].cacheKey)
        attempted == slice(Resolved[query].queries, 0, 6)
    IN  /\ req[r].pc = "idle"
        /\ ~got.found
        /\ configured
        /\ req' = [ req EXCEPT ![r] =
                      [ me EXCEPT !.pc = "await", !.issued = << attempted[1] >> ] ]
        /\ CACHE' = got.map
        /\ UNCHANGED << configured, now >>

\* Continue looping over every query, not the first six.
ContinueUncapped(r, me, results) ==
    LET attempted == Resolved[me.query].queries
        n == Len(me.issued)
    IN  IF n < Len(attempted)
        THEN /\ req' = [ req EXCEPT ![r] =
                           [ me EXCEPT !.results = results,
                                       !.issued = Append(me.issued, attempted[n + 1]) ] ]
             /\ CACHE' = CACHE
        ELSE Finish(r, me, results, CACHE)

\* lines 108-115: the loop after the awaited call is over: the next call, or
\* the response.
Continue(r, me, results) ==
    LET attempted == slice(Resolved[me.query].queries, 0, 6)
        n == Len(me.issued)
    IN  IF n < Len(attempted)
        THEN /\ req' = [ req EXCEPT ![r] =
                           [ me EXCEPT !.results = results,
                                       !.issued = Append(me.issued, attempted[n + 1]) ] ]
             /\ CACHE' = CACHE
        ELSE Finish(r, me, results, CACHE)

\* The awaited call answers with a well-formed page (lines 77-87, 111-112).
FetchResolves(r, items) ==
    /\ req[r].pc = "await"
    /\ Continue(r, [ req[r] EXCEPT !.answered = @ + 1 ], req[r].results \o cseItems(items))
    /\ UNCHANGED << configured, now >>

\* The awaited call fails: fetch rejects, the status is no success, the body
\* is no JSON, or its items are no list of objects (lines 77-82, 113).
FetchRejects(r, why) ==
    /\ req[r].pc = "await"
    /\ why \in { "network", "status", "json", "shape" }
    /\ Continue(r, [ req[r] EXCEPT !.answered = @ + 1, !.failed = TRUE ], req[r].results)
    /\ UNCHANGED << configured, now >>

\* Time passes.
Tick ==
    /\ \E t \in Instants : t > now /\ now' = t
    /\ UNCHANGED << configured, CACHE, req >>

\* ---------------------------------------------------------- specifications
\* Requests are numbered in their order of arrival.
InOrder(r) == \A p \in Reqs : p < r => req[p].pc # "idle"

\* No request is waiting for the provider.
Quiet == \A p \in Reqs : req[p].pc # "await"

\* A provider has at most MaxGathered marketplace listings for one request.
Listed(r, items) == Len(req[r].results) + Len(cseItems(items)) <= MaxGathered

Failures == { "network", "status", "json", "shape" }

\* Requests served concurrently: a request may arrive while others wait for
\* the provider.
Next ==
    \/ \E r \in Reqs, q \in FewQueries : InOrder(r) /\ ServeCached(r, q)
    \/ \E r \in Reqs, q \in FewQueries : InOrder(r) /\ ServeFallback(r, q)
    \/ \E r \in Reqs, q \in FewQueries : InOrder(r) /\ StartSearch(r, q)
    \/ \E r \in Reqs, items \in FewPages : Listed(r, items) /\ FetchResolves(r, items)
    \/ \E r \in Reqs, why \in Failures : FetchRejects(r, why)
    \/ Tick

Spec == Init /\ [][Next]_vars

\* Requests served one after the other: a request arrives once the one
\* before it has its response.
NextSerial ==
    \/ \E r \in Reqs, q \in FewQueries : InOrder(r) /\ Quiet /\ ServeCached(r, q)
    \/ \E r \in Reqs, q \in FewQueries : InOrder(r) /\ Quiet /\ ServeFallback(r, q)
    \/ \E r \in Reqs, q \in FewQueries : InOrder(r) /\ Quiet /\ StartSearch(r, q)
    \/ \E r \in Reqs, items \in FewPages : Listed(r, items) /\ FetchResolves(r, items)
    \/ \E r \in Reqs, why \in Failures : FetchRejects(r, why)
    \/ Tick

SpecSerial == Init /\ [][NextSerial]_vars

\* One request, a provider with many listings.
NextOne ==
    \/ \E q \in OneQueries : ServeFallback(1, q)
    \/ \E q \in OneQueries : StartSearch(1, q)
    \/ \E items \in ManyPages : FetchResolves(1, items)
    \/ \E why \in Failures : FetchRejects(1, why)

SpecOne == Init /\ [][NextOne]_vars

\* One request, every shape of its query string.
NextParams ==
    \/ \E q \in WideQueries : ServeFallback(1, q)
    \/ \E q \in WideQueries : StartSearch(1, q)
    \/ \E items \in FewPages : Listed(1, items) /\ FetchResolves(1, items)
    \/ \E why \in Failures : FetchRejects(1, why)

SpecParams == Init /\ [][NextParams]_vars

\* ----------------------------------------------------------------- claims
Key(r) == Resolved[req[r].query].cacheKey
Done(r) == req[r].pc = "done"
\* The request ran the pipeline to a payload, which it stored.
Stored(r) == Done(r) /\ ~req[r].hit /\ req[r].status = 200
\* No request arrived after r.
Latest(r) == \A p \in Reqs : p > r => req[p].pc = "idle"

\* C1: of two requests with equal resolved (targetCalories, activity, taste),
\* the second arriving after the first has responded and less than 10 minutes
\* after the first stored its payload, the second is answered from the cache
\* with the identical payload and no provider call of its own, so the call
\* sequence (at most 6 calls) ran once; a request that meets an entry stored
\* 10 minutes and 1 ms earlier misses the cache and runs the pipeline afresh:
\* it calls the provider when one is configured, and the payload it ends with
\* is stored anew under the instant of its response.
C1_RoundTrip ==
    /\ \A r1, r2 \in Reqs :
         ( /\ r1 # r2 /\ Stored(r1) /\ Done(r2) /\ Key(r1) = Key(r2)
           /\ r1 \in req[r2].after
           /\ req[r2].at - req[r1].doneAt < CACHE_TTL_MS )
         => /\ req[r2].hit
            /\ req[r2].status = 200
            /\ req[r2].body = req[r1].body
            /\ req[r2].issued = << >>
            /\ Len(req[r1].issued) <= 6
    /\ \A r \in Reqs :
         ( req[r].pc # "idle" /\ req[r].saw.present /\ req[r].saw.age = CACHE_TTL_MS + 1 )
         => /\ ~req[r].hit
            /\ configured => req[r].issued # << >>
            /\ (Done(r) /\ req[r].status = 200 /\ Latest(r))
               => /\ Key(r) \in DOMAIN CACHE
                  /\ CACHE[Key(r)] = [ v |-> req[r].body, t |-> req[r].doneAt ]

\* C1 witness: a second request answered from the cache 599,999 ms after the
\* first stored the payload its six provider calls led to.
C1_Witness ==
    \E r1, r2 \in Reqs :
        /\ r1 # r2 /\ Stored(r1) /\ Done(r2) /\ Key(r1) = Key(r2)
        /\ r1 \in req[r2].after
        /\ req[r2].at - req[r1].doneAt = CACHE_TTL_MS - 1
        /\ Len(req[r1].issued) = 6
        /\ req[r2].hit

\* C2 as claimed: the lookup answers with the stored payload exactly when an
\* entry exists and is less than 600,000 ms old.
C2_AsClaimed ==
    \A r \in Reqs :
        req[r].pc # "idle" =>
            (req[r].hit <=> (req[r].saw.present /\ req[r].saw.age < CACHE_TTL_MS))

\* C2 (amended): the lookup answers with the stored payload exactly when an
\* entry exists and is at most 600,000 ms old (an entry of exactly 600,000 ms
\* is still served); in every other case it answers absent and the key has
\* no entry while the request waits for the provider.
C2_CacheGet ==
    \A r \in Reqs :
        req[r].pc # "idle" =>
            /\ req[r].hit <=> (req[r].saw.present /\ req[r].saw.age <= CACHE_TTL_MS)
            /\ req[r].hit => (Done(r) /\ req[r].body = req[r].saw.v)
            /\ req[r].pc = "await" => Key(r) \notin DOMAIN CACHE

\* C2 witness: a request served an entry that is exactly 600,000 ms old.
C2_Witness ==
    \E r \in Reqs : req[r].hit /\ req[r].saw.age = CACHE_TTL_MS

\* C2 witness of the eviction: an entry older than that, met and removed.
C2_Evicted ==
    \E r \in Reqs : req[r].pc = "await" /\ req[r].saw.present

\* C1 witness of the expiry: a request that met an entry of 600,001 ms.
C1_Expired ==
    \E r \in Reqs : Done(r) /\ req[r].saw.present /\ req[r].saw.age = CACHE_TTL_MS + 1

\* The queries built for r.
Queries(r) == Resolved[req[r].query].queries

\* C3 as claimed: whatever the calories parameter holds, the resolved target
\* (behind the queries, the cache key and the payload) is an integer in
\* [300,800], and the queries use the lighter set exactly when it is <= 450.
C3_Clamped ==
    \A r \in Reqs :
        req[r].pc # "idle" =>
            LET target == req[r].targetMeal
            IN  /\ ~target.nan
                /\ target.d % 10 = 0
                /\ 3000 <= target.d /\ target.d <= 8000
                /\ Key(r)[1] = ToString(target.d \div 10)
                /\ (Queries(r)[1][1] = LIGHTER[1]) <=> (target.d <= 4500)
                /\ (Queries(r)[1][1] = HIGHER_PROTEIN[1]) <=> (target.d > 4500)
                /\ (Done(r) /\ req[r].status = 200) => req[r].body.targetCalories = target

\* C3, the part that holds: a calories parameter that is absent, empty or a
\* decimal number resolves to an integer in [300,800].
C3_Numeric ==
    \A r \in Reqs :
        (req[r].pc # "idle" /\ ~Number(req[r].query.calories).nan) =>
            LET target == req[r].targetMeal
            IN  /\ ~target.nan /\ target.d % 10 = 0
                /\ 3000 <= target.d /\ target.d <= 8000
                /\ (Queries(r)[1][1] = LIGHTER[1]) <=> (target.d <= 4500)

\* A call of r threw, or an answer listed an item with no title.
Troubled(r) ==
    req[r].failed \/ \E i \in 1..Len(req[r].results) : req[r].results[i].title = UNDEFINED

\* C4 as claimed: with a provider configured, a request one of whose calls
\* failed (the call threw, or its answer listed an item with no title) still
\* issues all six calls and ends with a 200 payload, never with a 500.
C4_Isolation ==
    \A r \in Reqs :
        (Done(r) /\ configured /\ ~req[r].hit /\ Troubled(r)) =>
            /\ Len(req[r].issued) = 6
            /\ req[r].status = 200

\* C4, the part that holds: a call that throws (network, status, JSON, item
\* list) leaves the other calls and the response alone.
C4_Thrown ==
    \A r \in Reqs :
        ( /\ Done(r) /\ configured /\ ~req[r].hit /\ req[r].failed
          /\ \A i \in 1..Len(req[r].results) : req[r].results[i].title # UNDEFINED )
        => (Len(req[r].issued) = 6 /\ req[r].status = 200)

\* C5: a request issues at most 6 provider calls, for the first queries in
\* generation order, at most one of them unanswered at any time; a request
\* answered from the cache, or with no provider configured, issues none.
C5_Calls ==
    \A r \in Reqs :
        LET n == Len(req[r].issued)
        IN  /\ n <= 6
            /\ req[r].issued = SubSeq(Queries(r), 1, n)
            /\ req[r].answered <= n /\ n - req[r].answered <= 1
            /\ req[r].pc = "await" <=> n - req[r].answered = 1
            /\ (req[r].hit \/ ~configured) => n = 0

\* C5 witness: a request waiting for its sixth call, the sixth query in
\* generation order, an earlier call having failed.
C5_Witness ==
    \E r \in Reqs :
        /\ req[r].pc = "await" /\ Len(req[r].issued) = 6 /\ req[r].failed
        /\ req[r].issued[6] = Queries(r)[6]

\* C5 witness of the cached case: a provider is configured and a request
\* answered from the cache issued no call.
C5_CachedNoCalls ==
    \E r \in Reqs : configured /\ req[r].hit /\ req[r].issued = << >>

\* C6: the payload of a request that ran the pipeline has usedCSE = TRUE
\* exactly when a provider is configured and at least one marketplace result
\* was gathered (whether or not some call failed), and then at most 5 picks;
\* a configured provider with nothing gathered gives usedCSE = FALSE.
C6_UsedCSE ==
    \A r \in Reqs :
        (Done(r) /\ ~req[r].hit /\ req[r].status = 200) =>
            /\ req[r].body.usedCSE <=> (configured /\ Len(req[r].results) > 0)
            /\ req[r].body.usedCSE => Len(req[r].body.picks) <= 5

\* C6 witness: results were gathered although a call failed, more of them
\* than fit the payload, and the payload says usedCSE with 5 picks.
C6_Witness ==
    \E r \in Reqs :
        /\ Done(r) /\ configured /\ req[r].failed /\ Len(req[r].results) > 5
        /\ req[r].status = 200 /\ req[r].body.usedCSE /\ Len(req[r].body.picks) = 5

\* C6 witness of the empty case: a provider is configured, nothing was
\* gathered, and the payload says usedCSE = FALSE.
C6_Empty ==
    \E r \in Reqs :
        /\ Done(r) /\ configured /\ ~req[r].hit /\ req[r].results = << >>
        /\ ~req[r].body.usedCSE

\* C7: with no provider configured every response is a payload with
\* usedCSE = FALSE and one pick for each of the first 5 queries, in their
\* order: named by the query without its site and city, linked to a web
\* search for the whole query, its reason giving the resolved target and
\* taste; requests that resolve alike get identical payloads, from the cache
\* or rebuilt.
C7_Fallback ==
    ~configured =>
        /\ \A r \in Reqs :
              Done(r) =>
                  /\ req[r].status = 200
                  /\ ~req[r].body.usedCSE
                  /\ req[r].body.targetCalories = req[r].targetMeal
                  /\ req[r].body.activity = req[r].activity
                  /\ req[r].body.taste = req[r].taste
                  /\ Len(req[r].body.picks) = 5
                  /\ \A i \in 1..5 :
                        LET pick == req[r].body.picks[i]
                            q == Queries(r)[i]
                        IN  /\ pick.link = << "https://www.google.com/search?q=",
                                              q[1], q[2], q[3], q[4] >>
                            /\ pick.name = << q[1], q[2] >>
                            /\ pick.reason[2] = NumberToString(req[r].targetMeal)
                            /\ pick.reason[4] = req[r].taste
        /\ \A r1, r2 \in Reqs :
              (Done(r1) /\ Done(r2) /\ Key(r1) = Key(r2)) => req[r1].body = req[r2].body

\* C7 witness: no provider, and a second request of the same target whose
\* payload was rebuilt after the entry of the first had expired.
C7_Witness ==
    \E r1, r2 \in Reqs :
        /\ ~configured /\ r1 # r2 /\ Done(r1) /\ Done(r2) /\ Key(r1) = Key(r2)
        /\ req[r1].query # req[r2].query
        /\ ~req[r2].hit /\ req[r2].saw.present

\* The first gathered result of every link, and their order by score.
Survivors(r) ==
    { i \in 1..Len(req[r].results) :
        \A j \in 1..(i - 1) : req[r].results[j].link # req[r].results[i].link }
ScoreAt(r, i) == scoreOf[req[r].results[i].title, req[r].taste].score
Before(r, i, j) ==
    ScoreAt(r, i) > ScoreAt(r, j) \/ (ScoreAt(r, i) = ScoreAt(r, j) /\ i < j)
Rank(r, i) == 1 + Cardinality({ j \in Survivors(r) : Before(r, j, i) })

\* C8: the picks of the scored path are the gathered results, in gather
\* order, without the later results of a link already seen, ordered by
\* falling score with equal scores in gather order, cut to the first 5; no
\* two picks share a link.
C8_Picks ==
    \A r \in Reqs :
        (Done(r) /\ ~req[r].hit /\ req[r].status = 200 /\ req[r].body.usedCSE) =>
            LET picks == req[r].body.picks
                n == Cardinality(Survivors(r))
            IN  /\ Len(picks) = IF n < 5 THEN n ELSE 5
                /\ \A i \in Survivors(r) :
                      Rank(r, i) <= 5 =>
                          /\ picks[Rank(r, i)].name = << req[r].results[i].title >>
                          /\ picks[Rank(r, i)].link = << req[r].results[i].link >>
                /\ \A p, q \in 1..Len(picks) : p # q => picks[p].link # picks[q].link

\* C8 witness: six links gathered, one of them twice under two titles, two
\* results of equal score, and a payload of 5 picks.
C8_Witness ==
    \E r \in Reqs :
        /\ Done(r) /\ req[r].status = 200 /\ req[r].body.usedCSE
        /\ Cardinality(Survivors(r)) = 6
        /\ \E i, j \in 1..Len(req[r].results) :
              /\ i < j /\ req[r].results[i].link = req[r].results[j].link
              /\ req[r].results[i].title # req[r].results[j].title
        /\ \E i, j \in Survivors(r) :
              i # j /\ ScoreAt(r, i) = ScoreAt(r, j) /\ Rank(r, i) <= 5 /\ Rank(r, j) <= 5

\* C9 as claimed: "Grilled Paneer Tikka Salad" scored for taste "tasty" gets
\* score 5 and exactly two reasons.
C9_AsClaimed ==
    \A r \in Reqs : \A i \in 1..Len(req[r].scored) :
        (req[r].taste = "tasty" /\ req[r].scored[i].name = "Grilled Paneer Tikka Salad") =>
            (req[r].scored[i].score = 5 /\ Len(req[r].scored[i].reasons) = 2)

\* C9 (amended): it gets score 8 and exactly three reasons: the positive
\* tokens "salad", "grilled" and "paneer" (+6) and the flavor tokens "tikka"
\* and "grill" (+2), no negative token.
C9_Score ==
    \A r \in Reqs : \A i \in 1..Len(req[r].scored) :
        (req[r].taste = "tasty" /\ req[r].scored[i].name = "Grilled Paneer Tikka Salad") =>
            /\ req[r].scored[i].score = 8
            /\ req[r].scored[i].reasons =
                   << <<"has", "salad">>, <<"has", "grilled">>, <<"has", "paneer">> >>

\* C9 witness: a request of taste "tasty" has scored that title.
C9_Witness ==
    \E r \in Reqs : \E i \in 1..Len(req[r].scored) :
        req[r].taste = "tasty" /\ req[r].scored[i].name = "Grilled Paneer Tikka Salad"

\* C10 as claimed: of two requests with equal resolved targets, the second
\* arriving while the first waits for the provider, at most one runs the
\* call sequence (6 calls between them) and both get the same payload.
C10_SingleFlight ==
    \A r1, r2 \in Reqs :
        ( /\ configured /\ r1 < r2 /\ Done(r1) /\ Done(r2) /\ Key(r1) = Key(r2)
          /\ r1 \notin req[r2].after /\ ~req[r1].hit )
        => /\ Len(req[r1].issued) + Len(req[r2].issued) <= 6
           /\ req[r1].body = req[r2].body
====
